---- MODULE Spec2Model ----
(***************************************************************************)
(* A model of github.com/podhmo/structflag: Builder.Build walks a record   *)
(* and registers one flag per field in a pflag flag set, FlagSet.Parse     *)
(* parses the command line and then overlays environment variables.        *)
(*                                                                         *)
(* Text (flag names, tag values, argument and environment values) is a     *)
(* sequence of one-character strings, so that upper-casing, replacement,   *)
(* splitting and sorting are computed as the code computes them.           *)
(***************************************************************************)
EXTENDS Integers, Sequences, FiniteSets, TLC

\* Longest argument sequence handed to Parse.
MaxArgs == 2

-----------------------------------------------------------------------------
(* Text helpers: strings.ToUpper, strings.ReplaceAll, strings.Contains,    *)
(* strings.SplitN, strings.TrimSpace, sort.Strings.                        *)

LowerLetters ==
  <<"a","b","c","d","e","f","g","h","i","j","k","l","m",
    "n","o","p","q","r","s","t","u","v","w","x","y","z">>

UpperLetters ==
  <<"A","B","C","D","E","F","G","H","I","J","K","L","M",
    "N","O","P","Q","R","S","T","U","V","W","X","Y","Z">>

Digits == <<"0","1","2","3","4","5","6","7","8","9">>

\* The bytes that occur in the model's text, in ASCII order.
Alphabet ==
  <<"\t", " ", ",", "-", ".">> \o Digits \o <<":">> \o UpperLetters
     \o <<"_">> \o LowerLetters

IndexOf(seq, c) ==
  IF \E i \in DOMAIN seq : seq[i] = c
    THEN CHOOSE i \in DOMAIN seq : seq[i] = c /\ \A j \in 1..(i-1) : seq[j] # c
    ELSE 0

ToUpperChar(c) ==
  IF IndexOf(LowerLetters, c) > 0 THEN UpperLetters[IndexOf(LowerLetters, c)] ELSE c

ToUpper(s) == [i \in DOMAIN s |-> ToUpperChar(s[i])]

\* strings.ReplaceAll for one-byte old and new.
ReplaceAll(s, old, new) == [i \in DOMAIN s |-> IF s[i] = old THEN new ELSE s[i]]

Contains(s, c) == \E i \in DOMAIN s : s[i] = c

IsSpace(c) == c \in {" ", "\t"}

RECURSIVE TrimLeft(_)
TrimLeft(s) == IF s # <<>> /\ IsSpace(Head(s)) THEN TrimLeft(Tail(s)) ELSE s

RECURSIVE TrimRight(_)
TrimRight(s) ==
  IF s # <<>> /\ IsSpace(s[Len(s)]) THEN TrimRight(SubSeq(s, 1, Len(s) - 1)) ELSE s

TrimSpace(s) == TrimRight(TrimLeft(s))

\* strings.Split(s, sep) for a one-byte separator: the pieces, empty ones kept.
RECURSIVE Split(_, _)
Split(s, sep) ==
  IF ~Contains(s, sep)
    THEN <<s>>
    ELSE LET i == IndexOf(s, sep)
         IN  <<SubSeq(s, 1, i - 1)>> \o Split(SubSeq(s, i + 1, Len(s)), sep)

\* Byte-wise lexicographic order, as sort.Strings orders flag names.
RECURSIVE Less(_, _)
Less(s, t) ==
  IF s = <<>> THEN t # <<>>
  ELSE IF t = <<>> THEN FALSE
  ELSE IF Head(s) = Head(t) THEN Less(Tail(s), Tail(t))
  ELSE IndexOf(Alphabet, Head(s)) < IndexOf(Alphabet, Head(t))

RECURSIVE SortNames(_)
SortNames(names) ==
  IF names = {} THEN <<>>
  ELSE LET m == CHOOSE x \in names : \A y \in names \ {x} : Less(x, y)
       IN  <<m>> \o SortNames(names \ {m})

-----------------------------------------------------------------------------
(* Text to value conversions of the flag engine (strconv), computed on the  *)
(* text.  A result is [ok |-> BOOLEAN, v |-> value].                        *)

Err == [ok |-> FALSE, v |-> 0]

IsDigits(s) == s # <<>> /\ \A i \in DOMAIN s : IndexOf(Digits, s[i]) > 0

RECURSIVE DigitsValue(_, _)
DigitsValue(s, acc) ==
  IF s = <<>> THEN acc
  ELSE DigitsValue(Tail(s), acc * 10 + (IndexOf(Digits, Head(s)) - 1))

\* strconv.ParseUint(s, 10, 64): digits only, no sign.
ParseUint(s) == IF IsDigits(s) THEN [ok |-> TRUE, v |-> DigitsValue(s, 0)] ELSE Err

\* strconv.ParseInt(s, 0, 64) / strconv.Atoi: an optional sign, then digits.
ParseInt(s) ==
  IF s # <<>> /\ Head(s) \in {"-", "+"}
    THEN IF IsDigits(Tail(s))
           THEN [ok |-> TRUE,
                 v  |-> IF Head(s) = "-" THEN 0 - DigitsValue(Tail(s), 0)
                                          ELSE DigitsValue(Tail(s), 0)]
           ELSE Err
    ELSE ParseUint(s)

\* strconv.ParseFloat on the integral literals of the model's text (no text of
\* the model has a fraction, an exponent, "inf" or "nan").
ParseFloat(s) == ParseInt(s)

\* strconv.ParseBool.
ParseBool(s) ==
  IF s \in { <<"1">>, <<"t">>, <<"T">>, <<"t","r","u","e">>,
             <<"T","R","U","E">>, <<"T","r","u","e">> }
    THEN [ok |-> TRUE, v |-> TRUE]
  ELSE IF s \in { <<"0">>, <<"f">>, <<"F">>, <<"f","a","l","s","e">>,
                  <<"F","A","L","S","E">>, <<"F","a","l","s","e">> }
    THEN [ok |-> TRUE, v |-> FALSE]
  ELSE [ok |-> FALSE, v |-> FALSE]

\* time.ParseDuration, in nanoseconds: "0" needs no unit, any other number does
\* (of the units only whole seconds occur in the model's text).
ParseDuration(s) ==
  LET signed == s # <<>> /\ Head(s) \in {"-", "+"}
      body   == IF signed THEN Tail(s) ELSE s
      n      == IF body # <<>> /\ body[Len(body)] = "s"
                  THEN SubSeq(body, 1, Len(body) - 1) ELSE <<>>
      neg(x) == IF signed /\ Head(s) = "-" THEN 0 - x ELSE x
  IN  IF body = <<"0">> THEN [ok |-> TRUE, v |-> 0]
      ELSE IF IsDigits(n)
        THEN [ok |-> TRUE, v |-> neg(DigitsValue(n, 0) * 1000000000)]
      ELSE Err

\* The leaf kinds Builder.walkField binds, by the name of their reflect.Kind
\* (time.Duration, of kind int64, is the kind "duration" here).
LeafKinds ==
  {"bool", "float64", "int64", "duration", "int", "string", "uint64", "uint"}

\* What <kind>Value.Set makes of one text for a scalar flag.
ParseScalar(vk, s) ==
  CASE vk = "bool"     -> ParseBool(s)
    [] vk = "float64"  -> ParseFloat(s)
    [] vk = "int64"    -> ParseInt(s)
    [] vk = "int"      -> ParseInt(s)
    [] vk = "duration" -> ParseDuration(s)
    [] vk = "uint64"   -> ParseUint(s)
    [] vk = "uint"     -> ParseUint(s)
    [] vk = "string"   -> [ok |-> TRUE, v |-> s]

\* What <kind>SliceValue.Set makes of one text: the text is split at commas and
\* every piece converted; one bad piece fails the whole text.
Gathered(conv) ==
  IF \A i \in DOMAIN conv : conv[i].ok
    THEN [ok |-> TRUE, v |-> [i \in DOMAIN conv |-> conv[i].v]]
    ELSE [ok |-> FALSE, v |-> <<>>]

ParsePieces(vk, pieces) ==
  Gathered([i \in DOMAIN pieces |->
              ParseScalar(vk, IF vk = "bool" THEN TrimSpace(pieces[i])
                                             ELSE pieces[i])])

ParseSlice(vk, s) == ParsePieces(vk, Split(s, ","))

\* The test suite's custom value type: LogLevel.Validate and LogLevel.Set.
LogLevels ==
  { <<"D","E","B","U","G">>, <<"I","N","F","O">>,
    <<"W","A","R","N">>, <<"E","R","R","O","R">> }

Validate(v) == v \in LogLevels

-----------------------------------------------------------------------------
(* Records.  A node is a reflect.Type together with the reflect.Value the   *)
(* caller hands to Build: kind is the reflect.Kind ("duration" for          *)
(* time.Duration), impl says that the pointer to the type implements        *)
(* pflag.Value, help that the type has HelpText with a value receiver,      *)
(* elem is the element type of a pointer or slice, fields the fields of a   *)
(* struct, isnil whether a pointer is nil and init a leaf's value.          *)

Leaf(kind, init) ==
  [kind |-> kind, impl |-> FALSE, help |-> FALSE, elem |-> <<>>,
   fields |-> <<>>, isnil |-> FALSE, init |-> init]

\* type LogLevel string, with Set/String/Type on *LogLevel and HelpText on LogLevel.
LogLevel(init) == [Leaf("string", init) EXCEPT !.impl = TRUE, !.help = TRUE]

SliceOf(t, init) == [Leaf("slice", init) EXCEPT !.elem = <<t>>]

PtrTo(t) == [Leaf("ptr", 0) EXCEPT !.elem = <<t>>]

NilPtr(t) == [Leaf("ptr", 0) EXCEPT !.elem = <<t>>, !.isnil = TRUE]

Struct(fields) == [Leaf("struct", 0) EXCEPT !.fields = fields]

\* reflect.StructField: Name, Tag (a function from tag key to text), Anonymous, Type.
Field(name, tags, typ) ==
  [name |-> name, tags |-> tags, anonymous |-> FALSE, typ |-> typ]

Embedded(name, tags, typ) ==
  [name |-> name, tags |-> tags, anonymous |-> TRUE, typ |-> typ]

\* reflect.StructField.IsExported: the name starts with an upper-case letter.
IsExported(name) == name # <<>> /\ IndexOf(UpperLetters, Head(name)) > 0

\* The zero value of a leaf kind.
Zero(t) ==
  CASE t.kind = "bool" -> FALSE
    [] t.kind \in {"string", "slice"} -> <<>>
    [] OTHER -> 0

(* The storage of a value: val maps the location of every leaf to its value, *)
(* nilp is the set of locations of nil pointers.  A location is the path of  *)
(* field indices from the record, with 0 for a pointer dereference.  With    *)
(* zero, the storage reflect.New makes: zero leaves and nil pointers.        *)
RECURSIVE MemOf(_, _, _)
MemOf(t, loc, zero) ==
  CASE t.kind = "ptr" ->
         IF zero \/ t.isnil
           THEN [val |-> <<>>, nilp |-> {loc}]
           ELSE MemOf(t.elem[1], loc \o <<0>>, zero)
    [] t.kind = "struct" ->
         LET sub == [i \in DOMAIN t.fields |->
                       MemOf(t.fields[i].typ, loc \o <<i>>, zero)]
             locs == UNION {DOMAIN sub[i].val : i \in DOMAIN sub}
         IN  [val  |-> [l \in locs |->
                          LET i == CHOOSE i \in DOMAIN sub : l \in DOMAIN sub[i].val
                          IN  sub[i].val[l]],
              nilp |-> UNION {sub[i].nilp : i \in DOMAIN sub}]
    [] OTHER ->
         [val |-> (loc :> (IF zero THEN Zero(t) ELSE t.init)), nilp |-> {}]

-----------------------------------------------------------------------------
(* Config and the state of one run: a caller makes a Builder, sets its      *)
(* Config, calls Build on a record and Parse on the flag set it returns.    *)

VARIABLES
  sc,       \* which record (and tag list) of Scenarios the caller builds
  cfg,      \* Config: FlagnameTags, EnvvarSupport, EnvPrefix, HandlingMode
  env,      \* the process environment: variable name -> text
  pc,       \* "new", "built", "buildPanic", "returned", "exited", "parsePanic"
  val,      \* the record: location of a leaf -> its value
  nilp,     \* the record: locations of its nil pointers
  flags,    \* the flag set: flag name -> flag
  fault,    \* the panic that ended Build, "" if none
  log,      \* what Build's walk did with each field it reached, in order
  args,     \* the arguments handed to Parse
  cmdErr,   \* the error of Parse's command-line phase, NoError if none
  cmdVal,   \* the record's leaves as the command-line phase left them
  visits,   \* the environment variables the overlay read and applied, in order
  retErr    \* the error Parse returned, NoError if none

vars ==
  <<sc, cfg, env, pc, val, nilp, flags, fault, log, args, cmdErr, cmdVal,
    visits, retErr>>

\* Config.ShorthandTag and Config.HelpTextTag as DefaultConfig sets them.
ShorthandTag == "short"

HelpTextTag == "help"

\* pflag.ErrorHandling.
HandlingModes == {"ContinueOnError", "ExitOnError", "PanicOnError"}

\* DefaultConfig's EnvNameFunc.
EnvNameFunc(c, name) ==
  c.EnvPrefix \o ReplaceAll(ReplaceAll(ToUpper(name), "-", "_"), ".", "_")

\* DefaultConfig's FlagNameFunc: a name with a comma is cut at the first comma
\* and trimmed (json's ",omitempty").
FlagNameFunc(v) ==
  IF Contains(v, ",") THEN TrimSpace(Split(v, ",")[1]) ELSE v

\* LogLevel.HelpText.
LogLevelHelpText == <<"l","o","g"," ","l","e","v","e","l"," ","{","D","E","B","U","G",","," ","I","N","F","O",","," ","W","A","R","N",","," ","E","R","R","O","R","}">>

-----------------------------------------------------------------------------
(* Builder.walk and Builder.walkField.  A walk state st holds the flag set, *)
(* the record's storage, the panic raised so far and the log.               *)

Logged(st, loc, name, kind, ev) ==
  [st EXCEPT !.log = Append(@, [loc |-> loc, name |-> name, kind |-> kind,
                                ev |-> ev])]

Panic(st, loc, name, kind, what) ==
  [Logged(st, loc, name, kind, "panic") EXCEPT !.fault = what]

\* The tag loop of Builder.walk: the configured tags are looked up from the
\* last to the first, each one found overwriting the name.
RECURSIVE LookupTags(_, _, _, _)
LookupTags(tags, keys, j, acc) ==
  IF j < 1 THEN acc
  ELSE LookupTags(tags, keys, j - 1,
         IF keys[j] \in DOMAIN tags
           THEN [fieldname |-> tags[keys[j]], hasFlagname |-> TRUE]
           ELSE acc)

\* The same loop run from the first tag to the last.
Reverse(s) == [i \in DOMAIN s |-> s[Len(s) + 1 - i]]

ResolveNameForward(c, rf) ==
  LookupTags(rf.tags, Reverse(c.FlagnameTags), Len(c.FlagnameTags),
             [fieldname |-> rf.name, hasFlagname |-> FALSE])

ResolveName(c, rf) ==
  LookupTags(rf.tags, c.FlagnameTags, Len(c.FlagnameTags),
             [fieldname |-> rf.name, hasFlagname |-> FALSE])

\* The walk without the sentinel.
IsNeverExcluded(fieldname) == FALSE

\* The sentinel that excludes a field.
IsExcluded(fieldname) == fieldname = <<"-">>

\* Builder.walk's second skip: no tag found and the field is unexported.
IsHidden(r, rf) == ~r.hasFlagname /\ ~IsExported(rf.name)

\* reflect.Value.Field: a value reached through an unexported field is
\* read-only; through an embedded unexported field only that value is, through
\* any other unexported field every value below it is too (sticky).
FieldRO(sticky, rf) ==
  [sticky |-> sticky \/ (~IsExported(rf.name) /\ ~rf.anonymous),
   embed  |-> ~IsExported(rf.name) /\ rf.anonymous]

\* What reflect refuses of a read-only value: CanInterface is false, Set and
\* being an argument of Call panic.
ReadOnly(ro) == ro.sticky \/ ro.embed

\* pflag.FlagSet.AddFlag, under every <Kind>VarP and VarP: a name or a shorthand
\* taken twice panics.
AddFlag(st, loc, name, kind, f) ==
  IF name \in DOMAIN st.flags
    THEN Panic(st, loc, name, kind, "flag redefined")
  ELSE IF f.shorthand # <<>>
          /\ (Len(f.shorthand) > 1
              \/ \E n \in DOMAIN st.flags : st.flags[n].shorthand = f.shorthand)
    THEN Panic(st, loc, name, kind, "shorthand redefined")
  ELSE [Logged(st, loc, name, kind, "flag") EXCEPT !.flags = @ @@ (name :> f)]

\* A flag: the storage it is bound to, the kind of value it converts text to,
\* whether the pflag.Value is a nil pointer, and the slice value's own
\* "changed" mark (FALSE until the first Set).
NewFlag(loc, vk, slice, custom, nilrecv, c) ==
  [loc |-> loc, vk |-> vk, slice |-> slice, custom |-> custom,
   nilrecv |-> nilrecv, shorthand |-> c.shorthand, usage |-> c.helpText,
   changed |-> FALSE]

\* The slice switch with its commented-out case reflect.Uint64 put back.
SliceElemKindsWithUint64 == LeafKinds

\* The element kinds of the slices Builder.walkField binds.
SliceElemKinds == {"bool", "float64", "int64", "duration", "int", "string", "uint"}

\* ft.Implements(rFlagValueType), ft the field's type or the pointer to it.
Implements(t) == IF t.kind = "ptr" THEN t.elem[1].impl ELSE t.impl

\* The help text Builder.walk derives for a field: the help tag, else the
\* value's own HelpText when reflect lets the value out (CanInterface), else
\* "-"; with environment support the variable's name goes in front.
HelpTextOf(c, rf, fieldname, ro) ==
  (IF c.EnvvarSupport
     THEN <<"E","N","V",":"," ">> \o EnvNameFunc(c, fieldname) \o <<"\t">>
     ELSE <<>>)
  \o (IF HelpTextTag \in DOMAIN rf.tags THEN rf.tags[HelpTextTag]
      ELSE IF ~ReadOnly(ro)
              /\ (IF rf.typ.kind = "ptr" THEN rf.typ.elem[1].help ELSE rf.typ.help)
        THEN LogLevelHelpText
      ELSE <<"-">>)

\* impl.HelpText() on a nil pointer: a value-receiver method called through a
\* nil pointer panics.
HelpTextPanics(rf, ro, isNil) ==
  /\ HelpTextTag \notin DOMAIN rf.tags
  /\ ~ReadOnly(ro)
  /\ rf.typ.kind = "ptr"
  /\ rf.typ.elem[1].help
  /\ isNil

\* The shorthand tag counts for top-level fields only.
ShorthandOf(rf, prefix) ==
  IF ShorthandTag \in DOMAIN rf.tags /\ prefix = <<>>
    THEN rf.tags[ShorthandTag] ELSE <<>>

FieldContext(cf, rf, prefix, ro, r, fieldname) ==
  [fieldname   |-> fieldname,
   helpText    |-> HelpTextOf(cf, rf, fieldname, ro),
   shorthand   |-> ShorthandOf(rf, prefix),
   prefix      |-> prefix,
   hasFlagname |-> r.hasFlagname,
   anonymous   |-> rf.anonymous]

\* fv.Set(reflect.New(rt.Elem())): the pointer at loc now points to new storage.
Allocated(st, loc, new) ==
  [st EXCEPT !.nilp = (@ \ {loc}) \cup new.nilp, !.val = @ @@ new.val]

\* The prefix Builder.walkField hands to the walk of a struct field.
StructPrefix(c) ==
  IF c.anonymous THEN c.prefix ELSE c.prefix \o c.fieldname \o <<".">>

RECURSIVE walk(_, _, _, _, _, _, _)
RECURSIVE walkField(_, _, _, _, _, _)

\* Builder.walkField on the value of type t at loc, c the fieldcontext.
walkField(cf, t, loc, c, ro, st) ==
  IF Implements(t)
    THEN \* fs.VarP through reflect's Call
         IF ReadOnly(ro)
           THEN Panic(st, loc, c.fieldname, "value", "reflect: unexported field")
           ELSE AddFlag(st, loc, c.fieldname, "value",
                        NewFlag(IF t.kind = "ptr" THEN loc \o <<0>> ELSE loc,
                                "LogLevel", FALSE, TRUE,
                                t.kind = "ptr" /\ loc \in st.nilp, c))
  ELSE IF t.kind = "ptr"
    THEN IF loc \in st.nilp /\ ~c.hasFlagname
           THEN Logged(st, loc, c.fieldname, "ptr", "nilskip")
         ELSE IF loc \in st.nilp /\ ReadOnly(ro)
           THEN Panic(st, loc, c.fieldname, "ptr", "reflect: unexported field")
         ELSE walkField(cf, t.elem[1], loc \o <<0>>, c, ro,
                IF loc \in st.nilp
                  THEN Logged(Allocated(st, loc, MemOf(t.elem[1], loc \o <<0>>, TRUE)),
                              loc, c.fieldname, "ptr", "alloc")
                  ELSE Logged(st, loc, c.fieldname, "ptr", "deref"))
  ELSE IF t.kind = "struct"
    THEN walk(cf, t, loc, StructPrefix(c), 1, ro.sticky,
              Logged(st, loc, c.fieldname, "struct", "walk"))
  ELSE IF t.kind \in LeafKinds \/ (t.kind = "slice" /\ t.elem[1].kind \in SliceElemKinds)
    THEN AddFlag(st, loc, c.fieldname, t.kind,
                 NewFlag(loc, IF t.kind = "slice" THEN t.elem[1].kind ELSE t.kind,
                         t.kind = "slice", FALSE, FALSE, c))
  ELSE Panic(st, loc, c.fieldname, t.kind,
             IF t.kind = "slice" THEN "unsupported slice type" ELSE "unsupported type")

\* One turn of Builder.walk's loop, on field rf at floc, r its resolved name and
\* ro what reflect lets the walk do with its value.
walkOne(cf, rf, floc, prefix, ro, r, fieldname, st) ==
  IF IsExcluded(r.fieldname)
    THEN Logged(st, floc, r.fieldname, rf.typ.kind, "excluded")
  ELSE IF IsHidden(r, rf)
    THEN Logged(st, floc, r.fieldname, rf.typ.kind, "hidden")
  ELSE IF HelpTextPanics(rf, ro, floc \in st.nilp)
    THEN Panic(st, floc, fieldname, rf.typ.kind, "nil pointer dereference")
  ELSE walkField(cf, rf.typ, floc,
                 FieldContext(cf, rf, prefix, ro, r, fieldname), ro, st)

walkNamed(cf, rf, floc, prefix, ro, r, st) ==
  walkOne(cf, rf, floc, prefix, ro, r, FlagNameFunc(prefix \o r.fieldname), st)

\* Builder.walk on the struct of type t at loc, from field i on; sticky says
\* that the struct was reached through an unexported field.
walk(cf, t, loc, prefix, i, sticky, st) ==
  IF st.fault # "" \/ i > Len(t.fields) THEN st
  ELSE walk(cf, t, loc, prefix, i + 1, sticky,
            walkNamed(cf, t.fields[i], loc \o <<i>>, prefix,
                      FieldRO(sticky, t.fields[i]),
                      ResolveName(cf, t.fields[i]), st))

-----------------------------------------------------------------------------
(* The flag engine's Set, and FlagSet.Parse.                                *)

NoError == [kind |-> "none", flag |-> <<>>, value |-> <<>>, envname |-> <<>>]

SetFailed(f, v) == [ok |-> FALSE, val |-> v, f |-> f]

\* LogLevel.Set: a nil receiver is an error; else the upper-cased text is
\* assigned and then validated.
SetLogLevel(f, v, upper) ==
  IF f.nilrecv THEN SetFailed(f, v)
  ELSE [ok |-> Validate(upper), val |-> [v EXCEPT ![f.loc] = upper], f |-> f]

\* <kind>SliceValue.Set: the first Set replaces the slice (the default), every
\* later one appends to it.
SetSlice(f, v, r) ==
  IF r.ok
    THEN [ok  |-> TRUE,
          val |-> [v EXCEPT ![f.loc] = IF f.changed THEN @ \o r.v ELSE r.v],
          f   |-> [f EXCEPT !.changed = TRUE]]
    ELSE SetFailed(f, v)

\* <kind>Value.Set: the converted text replaces the value.
SetScalar(f, v, r) ==
  IF r.ok THEN [ok |-> TRUE, val |-> [v EXCEPT ![f.loc] = r.v], f |-> f]
  ELSE SetFailed(f, v)

\* pflag.Value.Set of flag f on text: [ok, val, f].
SetValue(f, v, text) ==
  IF f.custom THEN SetLogLevel(f, v, ToUpper(text))
  ELSE IF f.slice THEN SetSlice(f, v, ParseSlice(f.vk, text))
  ELSE SetScalar(f, v, ParseScalar(f.vk, text))

\* The flag an argument names: by its name (--name) or its shorthand (-n).
FlagOfArg(fl, a) ==
  IF a.short
    THEN {n \in DOMAIN fl : fl[n].shorthand = a.name}
    ELSE {n \in DOMAIN fl : n = a.name}

\* The command line after the Set of flag n on argument a gave r.
AfterSet(st, n, a, r) ==
  [flags |-> IF r.ok THEN [st.flags EXCEPT ![n] = r.f] ELSE st.flags,
   val   |-> r.val,
   err   |-> IF r.ok THEN NoError
             ELSE [kind |-> "invalid argument", flag |-> n, value |-> a.value,
                   envname |-> <<>>]]

\* One argument: an unknown flag is an error, a known one is Set.
ParseArg(st, a, found) ==
  IF found = {}
    THEN [st EXCEPT !.err =
            [kind |-> IF a.short THEN "unknown shorthand flag" ELSE "unknown flag",
             flag |-> a.name, value |-> <<>>, envname |-> <<>>]]
    ELSE AfterSet(st, CHOOSE n \in found : TRUE, a,
                  SetValue(st.flags[CHOOSE n \in found : TRUE], st.val, a.value))

\* pflag.FlagSet.Parse: the arguments in order, stopping at the first error.
\* st is [flags, val, err].
RECURSIVE ParseArgs(_, _)
ParseArgs(st, as) ==
  IF as = <<>> \/ st.err # NoError THEN st
  ELSE ParseArgs(ParseArg(st, Head(as), FlagOfArg(st.flags, Head(as))), Tail(as))

\* os.Getenv.
Getenv(e, name) == IF name \in DOMAIN e THEN e[name] ELSE <<>>

\* Parse without its early return.
OverlayRunsAfterError(c, err) == c.EnvvarSupport

\* Whether FlagSet.Parse goes on to the environment after the command line.
OverlayRuns(c, err) == err = NoError /\ c.EnvvarSupport

\* The first error kept instead of the last.
KeepFirstError(old, new) == IF old = NoError THEN new ELSE old

\* retErr after a failed visit: the new error replaces whatever was there.
KeepError(old, new) == new

\* Whether the overlay applies the text it read for a variable.
Overrides(v) == v # <<>>

\* The overlay after fs.Set(f.Name, v) gave r.  st is [flags, val, err, visits].
Visited(st, n, envname, v, r) ==
  [flags  |-> [st.flags EXCEPT ![n] = r.f],
   val    |-> r.val,
   err    |-> IF r.ok THEN st.err
              ELSE KeepError(st.err, [kind |-> "on envvar", flag |-> n,
                                      value |-> v, envname |-> envname]),
   visits |-> Append(st.visits, [flag |-> n, envname |-> envname, value |-> v,
                                 ok |-> r.ok])]

VisitEnv(st, n, envname, v) ==
  IF Overrides(v)
    THEN Visited(st, n, envname, v, SetValue(st.flags[n], st.val, v))
    ELSE st

\* One call of the overlay's VisitAll callback, on flag n.
Visit(c, e, st, n) ==
  VisitEnv(st, n, EnvNameFunc(c, n), Getenv(e, EnvNameFunc(c, n)))

\* VisitAll: every flag, in the order of the sorted names.
RECURSIVE VisitAll(_, _, _, _)
VisitAll(c, e, st, names) ==
  IF names = <<>> THEN st
  ELSE VisitAll(c, e, Visit(c, e, st, Head(names)), Tail(names))

\* The second half of FlagSet.Parse, cmd what the command line left.
Overlay(c, e, cmd) ==
  IF OverlayRuns(c, cmd.err)
    THEN VisitAll(c, e, [flags |-> cmd.flags, val |-> cmd.val, err |-> NoError,
                         visits |-> <<>>],
                  SortNames(DOMAIN cmd.flags))
    ELSE [flags |-> cmd.flags, val |-> cmd.val, err |-> NoError, visits |-> <<>>]

-----------------------------------------------------------------------------
(* The records the caller builds.  A scenario is a record with the Config   *)
(* fields its caller sets (FlagnameTags, EnvPrefix), whether Build gets a   *)
(* pointer, and the small sets the arguments and the environment are drawn  *)
(* from.                                                                    *)

NoTags == <<>>

Name(short, name) == [short |-> short, name |-> name]

Scenario(tags, prefix, root, argNames, argTokens, envNames, envTokens) ==
  [tags |-> tags, prefix |-> prefix, byPointer |-> TRUE, root |-> root,
   argNames |-> argNames, argTokens |-> argTokens,
   envNames |-> envNames, envTokens |-> envTokens]

\* struct { A int `flag:"a-b"`; N int `flag:"n"`; S string `flag:"s"` }
Scalars ==
  Scenario(<<"flag">>, <<>>,
    Struct(<< Field(<<"A">>, [flag |-> <<"a","-","b">>], Leaf("int", 5)),
              Field(<<"N">>, [flag |-> <<"n">>], Leaf("int", 6)),
              Field(<<"S">>, [flag |-> <<"s">>], Leaf("string", <<"d">>)) >>),
    {Name(FALSE, <<"a","-","b">>), Name(FALSE, <<"s">>)}, {<<"1">>, <<"x">>},
    {<<"A","_","B">>, <<"N">>, <<"S">>}, {<<>>, <<"0">>, <<"x">>})

\* The same with ENV_PREFIX=X_ in the environment of DefaultConfig.
Prefixed ==
  Scenario(<<"flag">>, <<"X","_">>,
    Struct(<< Field(<<"N">>, [flag |-> <<"n">>], Leaf("int", 6)),
              Field(<<"B">>, [flag |-> <<"b">>], Leaf("bool", FALSE)) >>),
    {Name(FALSE, <<"n">>), Name(FALSE, <<"b">>)}, {<<"1">>},
    {<<"X","_","N">>, <<"N">>, <<"X","_","B">>}, {<<>>, <<"0">>})

\* struct { Nums []int `flag:"nums" short:"n"`; Strs []string `flag:"strs"` }
Slices ==
  Scenario(<<"flag">>, <<>>,
    Struct(<< Field(<<"N","u","m","s">>, [flag |-> <<"n","u","m","s">>, short |-> <<"n">>],
                    SliceOf(Leaf("int", 0), <<9>>)),
              Field(<<"S","t","r","s">>, [flag |-> <<"s","t","r","s">>],
                    SliceOf(Leaf("string", <<>>), <<>>)) >>),
    {Name(TRUE, <<"n">>), Name(FALSE, <<"s","t","r","s">>)}, {<<"1">>, <<"0",",","1">>, <<"x">>},
    {<<"N","U","M","S">>, <<"S","T","R","S">>}, {<<>>, <<"0">>, <<"x">>})

\* struct {
\*   V bool `flag:"f" json:"j,omitempty"`
\*   W bool `json:"k"`
\*   U bool `flag:"g"`
\*   T bool `flag:"-" json:"h"`
\* }
TaggedRoot ==
  Struct(<< Field(<<"V">>, [flag |-> <<"f">>, json |-> <<"j",",","o","m","i","t","e","m","p","t","y">>], Leaf("bool", FALSE)),
            Field(<<"W">>, [json |-> <<"k">>], Leaf("bool", FALSE)),
            Field(<<"U">>, [flag |-> <<"g">>], Leaf("bool", FALSE)),
            Field(<<"T">>, [flag |-> <<"-">>, json |-> <<"h">>], Leaf("bool", FALSE)) >>)

TaggedNames ==
  {Name(FALSE, <<"f">>), Name(FALSE, <<"j">>), Name(FALSE, <<"W">>), Name(FALSE, <<"h">>)}

TagsFlag == Scenario(<<"flag">>, <<>>, TaggedRoot, TaggedNames, {<<"1">>}, {<<"F">>}, {<<>>, <<"0">>})

TagsFlagJson ==
  Scenario(<<"flag", "json">>, <<>>, TaggedRoot, TaggedNames, {<<"1">>}, {<<"F">>}, {<<>>, <<"0">>})

TagsJsonFlag ==
  Scenario(<<"json", "flag">>, <<>>, TaggedRoot, TaggedNames, {<<"1">>}, {<<"J">>}, {<<>>, <<"0">>})

\* struct {
\*   A struct { B struct { C int `flag:"c"` } `flag:"b"`; D int `flag:"d"` } `flag:"a"`
\*   Base                      // embedded: struct { F int `flag:"f"` }
\*   G *struct { H int }       `flag:"g"`
\* }
Nested ==
  Scenario(<<"flag">>, <<>>,
    Struct(<< Field(<<"A">>, [flag |-> <<"a">>],
                Struct(<< Field(<<"B">>, [flag |-> <<"b">>],
                            Struct(<< Field(<<"C">>, [flag |-> <<"c">>], Leaf("int", 1)) >>)),
                          Field(<<"D">>, [flag |-> <<"d">>], Leaf("int", 2)) >>)),
              Embedded(<<"B","a","s","e">>, NoTags,
                Struct(<< Field(<<"F">>, [flag |-> <<"f">>], Leaf("int", 3)) >>)),
              Field(<<"G">>, [flag |-> <<"g">>],
                NilPtr(Struct(<< Field(<<"H">>, NoTags, Leaf("int", 0)) >>))) >>),
    {Name(FALSE, <<"a",".","b",".","c">>), Name(FALSE, <<"a",".","d">>), Name(FALSE, <<"f">>)}, {<<"1">>},
    {<<"A","_","D">>, <<"F">>}, {<<>>, <<"0">>})

\* struct {
\*   LogLevel        LogLevel  `flag:"lv"`
\*   LogLevelNil     *LogLevel `flag:"p" help:"h"`     // nil
\*   LogLevelPointer *LogLevel `flag:"q"`              // &WARN
\* }
Enum ==
  Scenario(<<"flag">>, <<>>,
    Struct(<< Field(<<"L","o","g","L","e","v","e","l">>, [flag |-> <<"l","v">>], LogLevel(<<"W","A","R","N">>)),
              Field(<<"L","o","g","L","e","v","e","l","N","i","l">>, [flag |-> <<"p">>, help |-> <<"h">>],
                    NilPtr(LogLevel(<<>>))),
              Field(<<"L","o","g","L","e","v","e","l","P","o","i","n","t","e","r">>, [flag |-> <<"q">>],
                    PtrTo(LogLevel(<<"W","A","R","N">>))) >>),
    {Name(FALSE, <<"l","v">>), Name(FALSE, <<"p">>), Name(FALSE, <<"q">>)}, {<<"i","n","f","o">>, <<"x">>},
    {<<"L","V">>, <<"Q">>}, {<<>>, <<"d","e","b","u","g">>, <<"x">>})

\* struct { LogLevelPointer *LogLevel `flag:"p"` }     // nil, no help tag
EnumNil ==
  Scenario(<<"flag">>, <<>>,
    Struct(<< Field(<<"L","o","g","L","e","v","e","l","P","o","i","n","t","e","r">>, [flag |-> <<"p">>], NilPtr(LogLevel(<<>>))) >>),
    {Name(FALSE, <<"p">>)}, {<<"i","n","f","o">>}, {<<"P">>}, {<<>>})

\* struct {
\*   X   int                           `flag:"-"`
\*   Sub struct { Y int `flag:"y"` }   `flag:"-"`
\*   Z   int                           `flag:"z"`
\* }
Excluded ==
  Scenario(<<"flag">>, <<>>,
    Struct(<< Field(<<"X">>, [flag |-> <<"-">>], Leaf("int", 1)),
              Field(<<"S","u","b">>, [flag |-> <<"-">>],
                Struct(<< Field(<<"Y">>, [flag |-> <<"y">>], Leaf("int", 2)) >>)),
              Field(<<"Z">>, [flag |-> <<"z">>], Leaf("int", 3)) >>),
    {Name(FALSE, <<"X">>), Name(FALSE, <<"-">>), Name(FALSE, <<"-",".","y">>), Name(FALSE, <<"y">>),
     Name(FALSE, <<"z">>)}, {<<"1">>},
    {<<"X">>, <<"Y">>, <<"Z">>}, {<<>>, <<"0">>})

\* struct {
\*   name string                        // unexported, no tag
\*   age  int    `flag:"age"`           // unexported, tagged
\*   sub  struct { K int } `flag:"sub"` // unexported, tagged
\*   Pub  bool
\* }
Unexported ==
  Scenario(<<"flag">>, <<>>,
    Struct(<< Field(<<"n","a","m","e">>, NoTags, Leaf("string", <<"d">>)),
              Field(<<"a","g","e">>, [flag |-> <<"a","g","e">>], Leaf("int", 5)),
              Field(<<"s","u","b">>, [flag |-> <<"s","u","b">>],
                Struct(<< Field(<<"K">>, NoTags, Leaf("int", 0)) >>)),
              Field(<<"P","u","b">>, NoTags, Leaf("bool", FALSE)) >>),
    {Name(FALSE, <<"n","a","m","e">>), Name(FALSE, <<"a","g","e">>), Name(FALSE, <<"P","u","b">>)}, {<<"1">>},
    {<<"N","A","M","E">>, <<"A","G","E">>}, {<<>>, <<"0">>})

\* struct { Pub int; ptr *int `flag:"ptr"` }           // ptr is nil
UnexportedNilPtr ==
  Scenario(<<"flag">>, <<>>,
    Struct(<< Field(<<"P","u","b">>, NoTags, Leaf("int", 0)),
              Field(<<"p","t","r">>, [flag |-> <<"p","t","r">>], NilPtr(Leaf("int", 0))) >>),
    {Name(FALSE, <<"p","t","r">>)}, {<<"1">>}, {<<"P","T","R">>}, {<<>>})

\* struct { ptr *int `flag:"ptr"` }                    // ptr points to 4
UnexportedPtr ==
  Scenario(<<"flag">>, <<>>,
    Struct(<< Field(<<"p","t","r">>, [flag |-> <<"p","t","r">>], PtrTo(Leaf("int", 4))) >>),
    {Name(FALSE, <<"p","t","r">>)}, {<<"1">>}, {<<"P","T","R">>}, {<<>>, <<"0">>})

\* struct { level LogLevel `flag:"lv"` }
UnexportedEnum ==
  Scenario(<<"flag">>, <<>>,
    Struct(<< Field(<<"l","e","v","e","l">>, [flag |-> <<"l","v">>], LogLevel(<<"W","A","R","N">>)) >>),
    {Name(FALSE, <<"l","v">>)}, {<<"i","n","f","o">>}, {<<"L","V">>}, {<<>>})

\* struct {
\*   P *int                      // nil, no tag
\*   Q *int  `flag:"q"`          // nil, tagged
\*   R *int                      // points to 7
\*   S *struct { T int } `flag:"s"`   // nil, tagged
\*   M *map[string]int           // nil, no tag
\*   I int
\* }
Pointers ==
  Scenario(<<"flag">>, <<>>,
    Struct(<< Field(<<"P">>, NoTags, NilPtr(Leaf("int", 0))),
              Field(<<"Q">>, [flag |-> <<"q">>], NilPtr(Leaf("int", 0))),
              Field(<<"R">>, NoTags, PtrTo(Leaf("int", 7))),
              Field(<<"S">>, [flag |-> <<"s">>],
                NilPtr(Struct(<< Field(<<"T">>, NoTags, Leaf("int", 0)) >>))),
              Field(<<"M">>, NoTags, NilPtr(Leaf("map", 0))),
              Field(<<"I">>, NoTags, Leaf("int", 8)) >>),
    {Name(FALSE, <<"P">>), Name(FALSE, <<"q">>), Name(FALSE, <<"R">>)}, {<<"1">>},
    {<<"P">>, <<"Q">>}, {<<>>, <<"0">>})

\* struct { A int `flag:"n"`; B int `flag:"n"` }
Duplicate ==
  Scenario(<<"flag">>, <<>>,
    Struct(<< Field(<<"A">>, [flag |-> <<"n">>], Leaf("int", 0)),
              Field(<<"B">>, [flag |-> <<"n">>], Leaf("int", 0)) >>),
    {Name(FALSE, <<"n">>)}, {<<"1">>}, {<<"N">>}, {<<>>})

\* Build(Options{}) instead of Build(&Options{}).
NotPointer == [Duplicate EXCEPT !.byPointer = FALSE]

(* One record per type: struct { V T }, for T every leaf kind the walk      *)
(* binds, some it does not, the slices of both, and pointers to them.       *)
ProbeLeaves ==
  << Leaf("bool", FALSE), Leaf("float64", 0), Leaf("int64", 0),
     Leaf("duration", 0), Leaf("int", 0), Leaf("string", <<>>),
     Leaf("uint64", 0), Leaf("uint", 0),
     Leaf("int32", 0), Leaf("float32", 0), Leaf("map", 0), Leaf("interface", 0) >>

ProbeTypes ==
  ProbeLeaves
    \o [i \in DOMAIN ProbeLeaves |-> SliceOf(ProbeLeaves[i], <<>>)]
    \o << PtrTo(Leaf("uint64", 0)), PtrTo(SliceOf(Leaf("uint64", 0), <<>>)),
          PtrTo(Leaf("map", 0)), SliceOf(SliceOf(Leaf("int", 0), <<>>), <<>>),
          SliceOf(PtrTo(Leaf("int", 0)), <<>>) >>

Probe(t) ==
  Scenario(<<"flag">>, <<>>, Struct(<< Field(<<"V">>, NoTags, t) >>),
           {Name(FALSE, <<"V">>)}, {<<"0">>, <<"x">>}, {<<"V">>}, {<<>>, <<"0">>})

Scenarios ==
  << Scalars, Prefixed, Slices, TagsFlag, TagsFlagJson, TagsJsonFlag, Nested,
     Enum, EnumNil, Excluded, Unexported, UnexportedNilPtr, UnexportedPtr,
     UnexportedEnum, Pointers, Duplicate, NotPointer >>
    \o [i \in DOMAIN ProbeTypes |-> Probe(ProbeTypes[i])]

S == Scenarios[sc]

\* The arguments a caller may hand to Parse: up to MaxArgs of them.
ArgOf(n, v) == [short |-> n.short, name |-> n.name, value |-> v]

ArgSeqs(s) ==
  UNION {[1..k -> {ArgOf(n, v) : n \in s.argNames, v \in s.argTokens}] :
           k \in 0..MaxArgs}

-----------------------------------------------------------------------------
Init ==
  /\ sc \in DOMAIN Scenarios
  /\ cfg \in [FlagnameTags : {S.tags}, EnvPrefix : {S.prefix},
              EnvvarSupport : BOOLEAN, HandlingMode : HandlingModes]
  /\ env \in [S.envNames -> S.envTokens]
  /\ pc = "new"
  /\ val = MemOf(S.root, <<>>, FALSE).val
  /\ nilp = MemOf(S.root, <<>>, FALSE).nilp
  /\ flags = <<>>
  /\ fault = ""
  /\ log = <<>>
  /\ args = <<>>
  /\ cmdErr = NoError
  /\ cmdVal = <<>>
  /\ visits = <<>>
  /\ retErr = NoError

\* Builder.Build: a value that is no pointer panics; else the record is walked
\* with an empty prefix.  A panic leaves the record as the walk left it.
Build ==
  /\ pc = "new"
  /\ LET st0 == [flags |-> <<>>, val |-> val, nilp |-> nilp, fault |-> "",
                 log |-> <<>>]
         st  == IF ~S.byPointer
                  THEN [st0 EXCEPT !.fault = "not pointer of struct"]
                  ELSE walk(cfg, S.root, <<>>, <<>>, 1, FALSE, st0)
     IN  /\ flags' = st.flags
         /\ val' = st.val
         /\ nilp' = st.nilp
         /\ fault' = st.fault
         /\ log' = st.log
         /\ pc' = IF st.fault = "" THEN "built" ELSE "buildPanic"
  /\ UNCHANGED <<sc, cfg, env, args, cmdErr, cmdVal, visits, retErr>>

\* How FlagSet.Parse ends: it returns, or pflag's error handling ends the
\* process on a command-line error.
EndOfParse(c, err) ==
  IF err = NoError \/ c.HandlingMode = "ContinueOnError" THEN "returned"
  ELSE IF c.HandlingMode = "ExitOnError" THEN "exited"
  ELSE "parsePanic"

Parsed(a, cmd, ov) ==
  /\ args' = a
  /\ cmdErr' = cmd.err
  /\ cmdVal' = cmd.val
  /\ flags' = ov.flags
  /\ val' = ov.val
  /\ visits' = ov.visits
  /\ retErr' = IF cmd.err # NoError THEN cmd.err ELSE ov.err
  /\ pc' = EndOfParse(cfg, cmd.err)

ParsedArgs(a, cmd) == Parsed(a, cmd, Overlay(cfg, env, cmd))

\* FlagSet.Parse(a): the command line, then, if that succeeded and environment
\* support is on, the overlay.
Parse(a) ==
  /\ pc = "built"
  /\ ParsedArgs(a, ParseArgs([flags |-> flags, val |-> val, err |-> NoError], a))
  /\ UNCHANGED <<sc, cfg, env, nilp, fault, log>>

Next ==
  \/ Build
  \/ \E a \in ArgSeqs(S) : Parse(a)

Spec == Init /\ [][Next]_vars

-----------------------------------------------------------------------------
(* What the properties below speak of: the fields of the record with the    *)
(* fields that enclose them, the flags bound below a field, the record as   *)
(* the caller made it.                                                      *)

RECURSIVE Deref(_)
Deref(t) == IF t.kind = "ptr" THEN Deref(t.elem[1]) ELSE t

RECURSIVE DerefLoc(_, _)
DerefLoc(t, loc) == IF t.kind = "ptr" THEN DerefLoc(t.elem[1], loc \o <<0>>) ELSE loc

\* Every field of struct t at loc, as [loc, rf, chain]: chain holds the fields
\* that enclose it, the outermost first.
RECURSIVE EntriesOf(_, _, _, _)
EntriesOf(t, loc, chain, i) ==
  IF i > Len(t.fields) THEN <<>>
  ELSE <<[loc |-> loc \o <<i>>, rf |-> t.fields[i], chain |-> chain]>>
       \o (IF Deref(t.fields[i].typ).kind = "struct" /\ ~Implements(t.fields[i].typ)
             THEN EntriesOf(Deref(t.fields[i].typ),
                            DerefLoc(t.fields[i].typ, loc \o <<i>>),
                            Append(chain, t.fields[i]), 1)
             ELSE <<>>)
       \o EntriesOf(t, loc, chain, i + 1)

Entries == EntriesOf(S.root, <<>>, <<>>, 1)

Initial == MemOf(S.root, <<>>, FALSE)

IsPrefix(p, l) == Len(p) <= Len(l) /\ SubSeq(l, 1, Len(p)) = p

FlagsUnder(loc) == {n \in DOMAIN flags : IsPrefix(loc, flags[n].loc)}

Reached(loc) == \E k \in DOMAIN log : log[k].loc = loc

ParseEnded == pc \in {"returned", "exited", "parsePanic"}

\* The configured tags a field carries, as indexes into FlagnameTags.
TagsPresent(rf) ==
  {j \in DOMAIN cfg.FlagnameTags : cfg.FlagnameTags[j] \in DOMAIN rf.tags}

Earliest(js) == CHOOSE j \in js : \A k \in js : j <= k

Latest(js) == CHOOSE j \in js : \A k \in js : j >= k

TagValue(rf, j) == FlagNameFunc(rf.tags[cfg.FlagnameTags[j]])

\* The name a field goes by: the value of the tag the walk resolved, else the
\* field's own name.
ExternalName(rf) == FlagNameFunc(ResolveName(cfg, rf).fieldname)

\* The text a valid Set leaves in a flag's storage.
Converted(f, text) ==
  IF f.custom THEN ToUpper(text)
  ELSE IF f.slice THEN ParseSlice(f.vk, text).v
  ELSE ParseScalar(f.vk, text).v

Valid(f, text) ==
  IF f.custom THEN ~f.nilrecv /\ Validate(ToUpper(text))
  ELSE IF f.slice THEN ParseSlice(f.vk, text).ok
  ELSE ParseScalar(f.vk, text).ok

EnvOf(n) == Getenv(env, EnvNameFunc(cfg, n))

-----------------------------------------------------------------------------
(* C1: for every registered flag, scalar or sequence, with environment      *)
(* support on: when the command line parsed, a non-empty valid value of the *)
(* derived environment variable is the field's final value, and an absent   *)
(* or empty variable leaves the field as the command line left it.          *)
C1_EnvOverridesCommandLine ==
  (pc = "returned" /\ cmdErr = NoError /\ cfg.EnvvarSupport) =>
    \A n \in DOMAIN flags :
      flags[n].loc \in DOMAIN val =>
        /\ (EnvOf(n) # <<>> /\ Valid(flags[n], EnvOf(n)))
             => val[flags[n].loc] = Converted(flags[n], EnvOf(n))
        /\ EnvOf(n) = <<>> => val[flags[n].loc] = cmdVal[flags[n].loc]

RECURSIVE Dotted(_)
Dotted(chain) ==
  IF chain = <<>> THEN <<>>
  ELSE (IF Head(chain).anonymous THEN <<>> ELSE ExternalName(Head(chain)) \o <<".">>)
       \o Dotted(Tail(chain))

(* C3: the flag of a leaf field reached through named struct fields, at any *)
(* depth, is named by the names of the enclosing fields and the leaf's own, *)
(* joined by ".", each enclosing field once; an embedded struct adds none.  *)
C3_DottedNames ==
  pc = "built" =>
    \A k \in DOMAIN Entries :
      \A n \in DOMAIN flags :
        flags[n].loc = DerefLoc(Entries[k].rf.typ, Entries[k].loc)
          => n = Dotted(Entries[k].chain) \o ExternalName(Entries[k].rf)

(* C4: when the command-line phase of Parse fails, no environment variable  *)
(* is applied, the record is as the command line left it, and the error     *)
(* Parse returns is the command line's.                                     *)
C4_NoOverlayAfterCommandLineError ==
  cmdErr # NoError =>
    /\ visits = <<>>
    /\ val = cmdVal
    /\ retErr = cmdErr
    /\ cfg.HandlingMode = "ContinueOnError" => pc = "returned"

\* The command line failed although the environment held a valid value that
\* differs from what a flag's field holds.
C4_Witness ==
  /\ cmdErr # NoError
  /\ pc = "returned"
  /\ cfg.EnvvarSupport
  /\ \E n \in DOMAIN flags :
       /\ flags[n].loc \in DOMAIN val
       /\ EnvOf(n) # <<>>
       /\ Valid(flags[n], EnvOf(n))
       /\ ~flags[n].slice
       /\ val[flags[n].loc] # Converted(flags[n], EnvOf(n))

(* C5: when the one argument of Parse gives a flag of a custom value type a *)
(* text its validation rejects, the field holds what it held before Parse   *)
(* (a nil pointer stays nil).                                               *)
C5_RejectedValueLeavesField ==
  (ParseEnded /\ Len(args) = 1 /\ cmdErr.kind = "invalid argument"
     /\ flags[cmdErr.flag].custom) =>
    IF flags[cmdErr.flag].nilrecv
      THEN flags[cmdErr.flag].loc \notin DOMAIN val
      ELSE val[flags[cmdErr.flag].loc] = Initial.val[flags[cmdErr.flag].loc]


\* The fields the walk leaves out by the sentinel: those whose resolved name
\* is "-", and every field below one.
IsSentinel(rf) == ResolveName(cfg, rf).fieldname = <<"-">>

SentinelAbove(e) ==
  IsSentinel(e.rf) \/ \E k \in DOMAIN e.chain : IsSentinel(e.chain[k])

FirstArgNames(names) ==
  ParseEnded /\ args # <<>> /\ ~args[1].short /\ args[1].name \in names

UnknownFlag ==
  cmdErr = [kind |-> "unknown flag", flag |-> args[1].name, value |-> <<>>,
            envname |-> <<>>]

(* C6: no flag is bound to a field whose flag-name tag is "-", or to a      *)
(* field below it, by Build or later; a Parse whose first argument is the   *)
(* field's name, or "-", ends with the unknown-flag error for it.           *)
C6_SentinelExcludes ==
  \A k \in DOMAIN Entries :
    SentinelAbove(Entries[k]) =>
      /\ FlagsUnder(Entries[k].loc) = {}
      /\ FirstArgNames({Entries[k].rf.name, <<"-">>}) => UnknownFlag

\* Parse was handed the name of a field that carries the sentinel.
C6_Witness ==
  /\ pc = "returned"
  /\ \E k \in DOMAIN Entries :
       /\ IsSentinel(Entries[k].rf)
       /\ Deref(Entries[k].rf.typ).kind \in LeafKinds
       /\ FirstArgNames({Entries[k].rf.name})
       /\ Cardinality(DOMAIN flags) > 0

(* C7: Build binds no flag to an unexported field that carries none of the  *)
(* configured tags (its name on the command line is an unknown flag), and   *)
(* binds one to every unexported field that carries one, once the walk has  *)
(* reached it.                                                              *)
C7_UnexportedFields ==
  (pc # "new" /\ fault \in {"", "reflect: unexported field"}) =>
    \A k \in DOMAIN Entries :
      ~IsExported(Entries[k].rf.name) =>
        /\ TagsPresent(Entries[k].rf) = {} =>
             /\ FlagsUnder(Entries[k].loc) = {}
             /\ (Entries[k].chain = <<>> /\ FirstArgNames({Entries[k].rf.name}))
                  => UnknownFlag
        /\ (/\ TagsPresent(Entries[k].rf) # {}
            /\ ~SentinelAbove(Entries[k])
            /\ Reached(Entries[k].loc)
            /\ Deref(Entries[k].rf.typ).kind # "struct")
             => FlagsUnder(Entries[k].loc) # {}

\* The failed visits of the overlay, as indexes into visits.
FailedVisits == {i \in DOMAIN visits : ~visits[i].ok}

\* What a successful visit left in the flag's field: the converted text, for a
\* slice at the end of it.
Applied(f, text) ==
  IF f.slice
    THEN /\ Len(val[f.loc]) >= Len(Converted(f, text))
         /\ SubSeq(val[f.loc], Len(val[f.loc]) - Len(Converted(f, text)) + 1,
                   Len(val[f.loc])) = Converted(f, text)
    ELSE val[f.loc] = Converted(f, text)

(* C8: the overlay visits every flag whose environment variable is not      *)
(* empty, in the order of the names, whatever failed before; every valid    *)
(* value is applied; Parse returns no error if none failed, else the error  *)
(* of the last failed visit, with that variable's name and value.           *)
C8_OverlayCollectsErrors ==
  (pc = "returned" /\ cmdErr = NoError /\ cfg.EnvvarSupport) =>
    /\ \A n \in DOMAIN flags :
         EnvOf(n) # <<>> <=> \E i \in DOMAIN visits : visits[i].flag = n
    /\ \A i, j \in DOMAIN visits : i < j => Less(visits[i].flag, visits[j].flag)
    /\ \A i \in DOMAIN visits :
         /\ visits[i].ok <=> Valid(flags[visits[i].flag], visits[i].value)
         /\ visits[i].ok => Applied(flags[visits[i].flag], visits[i].value)
    /\ IF FailedVisits = {} THEN retErr = NoError
       ELSE retErr = [kind    |-> "on envvar",
                      flag    |-> visits[Latest(FailedVisits)].flag,
                      value   |-> visits[Latest(FailedVisits)].value,
                      envname |-> EnvNameFunc(cfg, visits[Latest(FailedVisits)].flag)]

\* Two visits failed, on different values, and a later one succeeded.
C8_Witness ==
  /\ pc = "returned"
  /\ Cardinality(FailedVisits) > 1
  /\ \E i \in DOMAIN visits : visits[i].ok /\ i > Earliest(FailedVisits)
  /\ args # <<>>

\* The type of the value at a location of the record.
RECURSIVE TypeAt(_, _)
TypeAt(t, loc) ==
  IF loc = <<>> THEN t
  ELSE IF Head(loc) = 0 THEN TypeAt(t.elem[1], Tail(loc))
  ELSE TypeAt(t.fields[Head(loc)].typ, Tail(loc))

\* The log entries of the values walkField's switch dispatched on.
Dispatched ==
  {k \in DOMAIN log :
     /\ log[k].ev \in {"flag", "panic"}
     /\ log[k].kind # "value"
     /\ log[k].ev = "panic" =>
          fault \in {"unsupported type", "unsupported slice type",
                     "flag redefined", "shorthand redefined"}}

UnsupportedFault == fault \in {"unsupported type", "unsupported slice type"}

\* The supported set as claimed: the eight leaf kinds, the slices of each of
\* them, pointers and structs.
C9_ClaimedKinds(t) ==
  \/ t.kind \in LeafKinds \cup {"ptr", "struct"}
  \/ t.kind = "slice" /\ t.elem[1].kind \in LeafKinds

\* The supported set as amended: no slices of uint64.
C9_AmendedKinds(t) ==
  \/ t.kind \in LeafKinds \cup {"ptr", "struct"}
  \/ t.kind = "slice" /\ t.elem[1].kind \in LeafKinds \ {"uint64"}

(* C9, as claimed: Build ends with the unsupported-type panic exactly when  *)
(* the walk dispatched on a value of a kind outside the claimed set, and    *)
(* binds a flag to every value of a leaf or slice kind inside it.           *)
C9_UnsupportedKindsAsClaimed ==
  (pc # "new" /\ (fault = "" \/ UnsupportedFault)) =>
    /\ UnsupportedFault <=>
         \E k \in Dispatched : ~C9_ClaimedKinds(TypeAt(S.root, log[k].loc))
    /\ \A k \in Dispatched :
         C9_ClaimedKinds(TypeAt(S.root, log[k].loc)) => log[k].ev = "flag"

(* C9, amended: Build ends with the unsupported-type panic exactly when the *)
(* walk dispatched on a value of a kind outside the amended set; to every   *)
(* value of a leaf or slice kind inside it Build binds a flag, unless the   *)
(* flag engine refuses the name or shorthand as taken.                      *)
C9_UnsupportedKinds ==
  pc # "new" =>
    /\ UnsupportedFault <=>
         \E k \in Dispatched : ~C9_AmendedKinds(TypeAt(S.root, log[k].loc))
    /\ \A k \in Dispatched :
         C9_AmendedKinds(TypeAt(S.root, log[k].loc)) =>
           \/ log[k].ev = "flag" /\ FlagsUnder(log[k].loc) # {}
           \/ fault \in {"flag redefined", "shorthand redefined"}

\* Build ended on a slice of uint64, reached through a pointer or not.
C9_Witness ==
  /\ pc = "buildPanic"
  /\ fault = "unsupported slice type"
  /\ \E k \in Dispatched :
       /\ TypeAt(S.root, log[k].loc).kind = "slice"
       /\ TypeAt(S.root, log[k].loc).elem[1].kind = "uint64"

(* C10: a nil pointer field without a tag gets no flag and stays nil through *)
(* Build and Parse; a nil pointer field with a tag is allocated by Build,    *)
(* pointing to a zero value, once the walk has reached it; a pointer that is *)
(* not nil is kept; Build changes no leaf of the record.                     *)
C10_PointerFields ==
  (pc # "new" /\ fault \in {"", "reflect: unexported field"}) =>
    /\ \A k \in DOMAIN Entries :
         (Entries[k].rf.typ.kind = "ptr" /\ ~Implements(Entries[k].rf.typ)
            /\ Entries[k].chain = <<>>) =>
           IF Entries[k].loc \notin Initial.nilp
             THEN Entries[k].loc \notin nilp
           ELSE IF TagsPresent(Entries[k].rf) = {}
             THEN Entries[k].loc \in nilp /\ FlagsUnder(Entries[k].loc) = {}
           ELSE (Reached(Entries[k].loc) /\ ~IsSentinel(Entries[k].rf)) =>
                  /\ Entries[k].loc \notin nilp
                  /\ \A l \in DOMAIN val \ DOMAIN Initial.val :
                       IsPrefix(Entries[k].loc, l) /\ pc \in {"built", "buildPanic"}
                         => val[l] = Zero(TypeAt(S.root, l))
    /\ pc \in {"built", "buildPanic"} =>
         \A l \in DOMAIN Initial.val : val[l] = Initial.val[l]

====
